---- MODULE Spec2Model ----
(***************************************************************************)
(* Chip extraction and batching of mltools/data_extractors.py:             *)
(*   - getIterData: the stratified multi-image sampler (constructor,       *)
(*     per-image generators yield_from_img_id, next());                    *)
(*   - get_iter_data: the single-stream batch generator;                   *)
(*   - the size filter and zero-padder both of them apply to a chip.       *)
(* A chip is modelled by its numpy shape (the empty shape for None); a     *)
(* padded chip keeps the polygon it was cut for, its shape and the pads.   *)
(***************************************************************************)
EXTENDS Integers, Sequences, FiniteSets, TLC

\* ---------------------------------------------------------------- bounds
MaxFeatures == 3    \* polygons in a generated feature collection
MaxBatch == 3       \* batch_size of a generated call
MaxWeight == 2      \* largest raw weight of a generated proportion table
MaxHW == 4          \* largest chip edge / max_chip_hw of the padder runs
MaxStops == 2       \* StopIteration raises counted (the count saturates)
MaxChannels == 3    \* channels of a chip of the padder runs
MaxMinHW == 2       \* largest min_chip_hw of the padder runs

VARIABLES
    shapefile,   \* the feature collection: Seq of [properties, chip]
    args,        \* the arguments of the constructor / of get_iter_data
    pc,          \* where the caller is
    trunc,       \* getIterData: quotas as first truncated (before line 331)
    props,       \* getIterData.props: image id -> quota
    img_ids,     \* iteration order of getIterData.chip_gens
    chip_gens,   \* getIterData.chip_gens: image id -> generator frame
    cur,         \* next(): position in img_ids of the generator being pulled
    data,        \* next(): the rows collected so far
    result,      \* outcome of the last call: [kind, value]
    nreturned,   \* number of next() calls that returned a batch
    returned,    \* history: the polygons the batches returned so far were cut for
    stops,       \* number of next() calls that raised StopIteration
    iter         \* the frame of the get_iter_data generator

vars == <<shapefile, args, pc, trunc, props, img_ids, chip_gens, cur, data,
          result, nreturned, returned, stops, iter>>

\* ------------------------------------------------------- python helpers
PyNone == "<None>"
NullChip == <<>>                  \* np.shape(None) == ()
EmptyDict == [k \in {} |-> 0]

Min2(a, b) == IF a < b THEN a ELSE b
Max2(a, b) == IF a > b THEN a ELSE b

RECURSIVE SumValues(_)
SumValues(d) ==
    IF DOMAIN d = {} THEN 0
    ELSE LET k == CHOOSE x \in DOMAIN d : TRUE
         IN d[k] + SumValues([x \in DOMAIN d \ {k} |-> d[x]])

\* zip(*cols): the rows of a list of columns, cut at the shortest column
Zip(cols) ==
    IF Len(cols) = 0 THEN <<>>
    ELSE LET n == CHOOSE m \in {Len(cols[c]) : c \in 1..Len(cols)} :
                      \A c \in 1..Len(cols) : m <= Len(cols[c])
         IN [r \in 1..n |-> [c \in 1..Len(cols) |-> cols[c][r]]]

Shuffles(n) == {p \in [1..n -> 1..n] : \A i, j \in 1..n : p[i] = p[j] => i = j}

\* ------------------------------------------- double precision arithmetic
RECURSIVE Pow2(_)
Pow2(n) == IF n <= 0 THEN 1 ELSE 2 * Pow2(n - 1)

RECURSIVE Pow2Mod(_, _)
Pow2Mod(e, t) == IF e = 0 THEN 1 % t ELSE (2 * Pow2Mod(e - 1, t)) % t

RECURSIVE Log2Floor(_)
Log2Floor(k) == IF k < 2 THEN 0 ELSE 1 + Log2Floor(k \div 2)

\* for 0 < w <= t: the j with 2^-j <= w/t < 2^(1-j)
RECURSIVE BinExp(_, _)
BinExp(w, t) == IF w >= t THEN 0 ELSE 1 + BinExp(2 * w, t)

\* int((float(w) / t) * b) for integers 0 <= w <= t, t >= 1, b >= 1, in IEEE
\* double arithmetic (53-bit significand, round to nearest even).  The
\* quotient q = RN(w/t) has q*t*2^(52+j) = w*2^(52+j) - r (rounded down,
\* 2r < t) or + (t - r) (rounded up), r = w*2^(52+j) mod t.  When w*b/t is no
\* integer, or q >= w/t, truncation gives floor(w*b/t) = k.  When w*b/t = k
\* and q < w/t the exact product is k - r*b/(t*2^(52+j)), which rounds to a
\* double below k iff it is more than half a spacing below k.
IntOfFloatProduct(w, t, b) ==
    LET k == (w * b) \div t
        f == (w * b) % t
        j == BinExp(w, t)
        r == (w * Pow2Mod(52 + j, t)) % t
        p == Log2Floor(k)
        e == IF k = Pow2(p) THEN j + p - 1 ELSE j + p
    IN  IF w = 0 THEN 0
        ELSE IF f # 0 \/ r = 0 \/ 2 * r > t THEN k
        ELSE IF 2 * r * b > t * Pow2(e) THEN k - 1
        ELSE k

\* ------------------------------------------------- the feature collection
\* properties[name] raises KeyError when the polygon lacks the property
HasKey(properties, name) == name \in DOMAIN properties

\* gt.find_unique_values(shapefile, property_name): the distinct values observed
FindUniqueValues(property_name) ==
    {shapefile[i].properties[property_name] :
        i \in {n \in 1..Len(shapefile) : HasKey(shapefile[n].properties, property_name)}}

RECURSIVE SelectIndices(_, _)
SelectIndices(n, img_id) ==
    IF n = 0 THEN <<>>
    ELSE LET rest == SelectIndices(n - 1, img_id)
             pr == shapefile[n].properties
         IN IF HasKey(pr, "image_id") /\ pr["image_id"] = img_id
            THEN Append(rest, n) ELSE rest

\* img.iter_vector(vector=shapefile, properties=True, filter=[{'image_id': img_id}]):
\* the polygons of the collection on that image, in collection order
IterVector(img_id) == SelectIndices(Len(shapefile), img_id)

\* str(value) of a property value: a string is itself, None is 'None'
Str(value) == IF value = PyNone THEN "None" ELSE value

\* mutant of GetProportion: total counts only the polygons that have the property
GetProportionOfPresent(property_name, property) ==
    LET total == Cardinality({i \in 1..Len(shapefile) :
                    HasKey(shapefile[i].properties, property_name)})
        prop == Cardinality({i \in 1..Len(shapefile) :
                    /\ HasKey(shapefile[i].properties, property_name)
                    /\ Str(shapefile[i].properties[property_name]) = property})
    IN <<prop, total>>

\* getIterData.get_proportion: float(prop) / total, kept as the pair <<prop, total>>
GetProportion(property_name, property) ==
    LET total == Len(shapefile)
        prop == Cardinality({i \in 1..Len(shapefile) :
                    /\ HasKey(shapefile[i].properties, property_name)
                    /\ Str(shapefile[i].properties[property_name]) = property})
    IN <<prop, total>>

\* ------------------------------------------------- size filter and padder
\* mutant of Rejected: the upper bound is forgotten
RejectedMinOnly(chip, min_chip_hw, max_chip_hw) ==
    Min2(chip[2], chip[3]) < min_chip_hw

\* mutant of Rejected: an edge equal to max_chip_hw is rejected too
RejectedAtMax(chip, min_chip_hw, max_chip_hw) ==
    \/ Min2(chip[2], chip[3]) < min_chip_hw
    \/ Max2(chip[2], chip[3]) >= max_chip_hw

\* mutant of Rejected: an edge equal to min_chip_hw is rejected too
RejectedAtMin(chip, min_chip_hw, max_chip_hw) ==
    \/ Min2(chip[2], chip[3]) <= min_chip_hw
    \/ Max2(chip[2], chip[3]) > max_chip_hw

\* min(h, w) < min_chip_hw or max(h, w) > max_chip_hw
Rejected(chip, min_chip_hw, max_chip_hw) ==
    \/ Min2(chip[2], chip[3]) < min_chip_hw
    \/ Max2(chip[2], chip[3]) > max_chip_hw

\* mutant of PadWidth: the odd pixel goes in front
PadWidthLeadingBias(pad) == <<pad - pad \div 2, pad \div 2>>

\* the pad widths np.pad gets for one axis: (pad/2, pad - pad/2)
PadWidth(pad) == <<pad \div 2, pad - pad \div 2>>

\* np.pad(chip, [(0, 0), (pad_h/2, pad_h - pad_h/2), (pad_w/2, pad_w - pad_w/2)])
\* for the chip of polygon fid; shape is np.shape of the result
PadChip(fid, chip, max_chip_hw) ==
    LET pad_h == max_chip_hw - chip[2]
        pad_w == max_chip_hw - chip[3]
        ph == PadWidth(pad_h)
        pw == PadWidth(pad_w)
    IN [fid |-> fid,
        shape |-> <<chip[1], ph[1] + chip[2] + ph[2], pw[1] + chip[3] + pw[2]>>,
        pad_h |-> ph,
        pad_w |-> pw]

\* ----------------------------------------------------------- accumulator
\* cls_dict = {classes[i]: i for i in xrange(len(classes))}
InClsDict(classes, label) == \E i \in 1..Len(classes) : classes[i] = label
ClsDict(classes, label) ==
    (CHOOSE i \in 1..Len(classes) :
        /\ classes[i] = label
        /\ \A k \in 1..Len(classes) : classes[k] = label => k <= i) - 1

\* the try block reading properties['class_name']: TRUE when the polygon is
\* skipped (label None, KeyError on the property or on cls_dict)
LabelSkipped(classes, properties) ==
    \/ ~HasKey(properties, "class_name")
    \/ properties["class_name"] = PyNone
    \/ ~InClsDict(classes, properties["class_name"])

\* Y = np.zeros((n, ncols)); for i in range(n): Y[i, labels[i]] = 1
OneHot(n, ncols, labels) ==
    [i \in 1..n |-> [c \in 1..ncols |-> IF c = labels[i] + 1 THEN 1 ELSE 0]]

\* the list a generator yields: [chips, ids (if return_id), Y (if return_labels)]
Package(a, n, ncols, inputs, labels, ids) ==
    <<inputs>>
    \o (IF a.return_id THEN <<ids>> ELSE <<>>)
    \o (IF a.return_labels THEN <<OneHot(n, ncols, labels)>> ELSE <<>>)

\* --------------------------------------- getIterData.yield_from_img_id
\* mutant of NewGen: every pipeline is sized to the whole batch
NewGenFullBatch(img_id, batch) ==
    [batch |-> args.batch_size, stream |-> IterVector(img_id), pos |-> 0,
     ct |-> 0, inputs |-> <<>>, labels |-> <<>>, ids |-> <<>>, status |-> "new"]

\* the frame of a generator just created by yield_from_img_id(img_id, batch)
NewGen(img_id, batch) ==
    [batch |-> batch, stream |-> IterVector(img_id), pos |-> 0,
     ct |-> 0, inputs |-> <<>>, labels |-> <<>>, ids |-> <<>>, status |-> "new"]

\* mutant of Resumed: the labels of the batch just yielded are kept
ResumedKeepsLabels(g) ==
    IF g.status = "yield"
    THEN [g EXCEPT !.ct = 0, !.inputs = <<>>, !.ids = <<>>, !.status = "loop"]
    ELSE [g EXCEPT !.status = "loop"]

\* mutant of Resumed: the resumed generator reads its stream from the start
ResumedRewind(g) ==
    IF g.status = "yield"
    THEN [g EXCEPT !.ct = 0, !.inputs = <<>>, !.labels = <<>>, !.ids = <<>>,
                   !.pos = 0, !.status = "loop"]
    ELSE [g EXCEPT !.status = "loop"]

\* a generator resumed after its yield first runs line 462
Resumed(g) ==
    IF g.status = "yield"
    THEN [g EXCEPT !.ct = 0, !.inputs = <<>>, !.labels = <<>>, !.ids = <<>>,
                   !.status = "loop"]
    ELSE [g EXCEPT !.status = "loop"]

\* the generator has a polygon left to read
HasPolygon(g) == g.status # "done" /\ g.pos < Len(g.stream)

\* one pass of the for loop of yield_from_img_id over the next polygon:
\* the frame after it, and whether it continued, yielded or raised
YieldFromImgIdStep(a, g0) ==
    LET g == Resumed(g0)
        fid == g.stream[g.pos + 1]
        chip == shapefile[fid].chip
        properties == shapefile[fid].properties
        skip == [g |-> [g EXCEPT !.pos = @ + 1], ev |-> "continue", data |-> <<>>]
    IN  IF chip = NullChip THEN skip
        ELSE IF Rejected(chip, a.min_chip_hw, a.max_chip_hw) THEN skip
        ELSE IF a.return_labels /\ LabelSkipped(a.classes, properties) THEN skip
        ELSE IF a.return_id /\ ~HasKey(properties, "feature_id")
        THEN \* id = properties['feature_id'] raises after the label was appended
             [g |-> [g EXCEPT
                        !.labels = IF a.return_labels
                                   THEN Append(@, ClsDict(a.classes, properties["class_name"]))
                                   ELSE @,
                        !.status = "done"],
              ev |-> "KeyError", data |-> <<>>]
        ELSE
          LET acc == [g EXCEPT
                  !.pos = @ + 1,
                  !.labels = IF a.return_labels
                             THEN Append(@, ClsDict(a.classes, properties["class_name"]))
                             ELSE @,
                  !.ids = IF a.return_id THEN Append(@, properties["feature_id"]) ELSE @,
                  !.inputs = Append(@, PadChip(fid, chip, a.max_chip_hw)),
                  !.ct = @ + 1]
          IN  IF g.batch = 0      \* 100 * ct / float(batch)
              THEN [g |-> [acc EXCEPT !.status = "done"],
                    ev |-> "ZeroDivisionError", data |-> <<>>]
              ELSE IF acc.ct = g.batch
              THEN [g |-> [acc EXCEPT !.status = "yield"], ev |-> "yield",
                    data |-> Package(a, g.batch, Len(a.classes),
                                     acc.inputs, acc.labels, acc.ids)]
              ELSE [g |-> acc, ev |-> "continue", data |-> <<>>]

\* ------------------------------------------------- getIterData.__init__
HasProps == DOMAIN args.props # {}       \* `if props:`

\* _format_props_input: props[i] /= float(total_prop); int(props[i] * batch_size)
FormatPropsInput(p) ==
    LET total_prop == SumValues(p)
    IN [i \in DOMAIN p |-> IntOfFloatProduct(p[i], total_prop, args.batch_size)]

\* int(self.get_proportion('image_id', id) * self.batch_size)
DerivedQuota(id) ==
    LET q == GetProportion("image_id", id)
    IN IntOfFloatProduct(q[1], q[2], args.batch_size)

\* lines 319-328: the image ids and the truncated quotas
InitImgIds == IF HasProps THEN DOMAIN args.props ELSE FindUniqueValues("image_id")
InitProps ==
    IF HasProps THEN FormatPropsInput(args.props)
    ELSE [id \in {i \in InitImgIds : DerivedQuota(i) > 0} |-> DerivedQuota(id)]

\* mutant of Corrected: the chosen quota is incremented by one
CorrectedByOne(p, diff) ==
    IF SumValues(p) < args.batch_size THEN [p EXCEPT ![diff] = @ + 1] ELSE p

\* lines 331-334 with diff the value np.random.choice returned
Corrected(p, diff) ==
    LET total == SumValues(p)
    IN IF total < args.batch_size
       THEN [p EXCEPT ![diff] = @ + (args.batch_size - total)]
       ELSE p

\* the orders a dict of these keys may be iterated in
Orders(S) == {o \in [1..Cardinality(S) -> S] : \A i, j \in DOMAIN o : o[i] = o[j] => i = j}

Raise(kind) == [kind |-> kind, value |-> <<>>]

Construct ==
    /\ pc = "constructing"
    /\ LET p0 == InitProps
           short == SumValues(p0) < args.batch_size
       IN
       /\ trunc' = p0
       /\ nreturned' = 0
       /\ returned' = {}
       /\ UNCHANGED <<shapefile, args, cur, data, stops, iter>>
       /\ IF short /\ DOMAIN p0 = {}
          THEN \* np.random.choice of an empty list
               /\ pc' = "failed"
               /\ result' = Raise("ValueError")
               /\ UNCHANGED <<props, img_ids, chip_gens>>
          ELSE \E diff \in (IF short THEN DOMAIN p0 ELSE {PyNone}) :
               LET p1 == Corrected(p0, diff)
               IN /\ props' = p1
                  /\ IF InitImgIds \subseteq DOMAIN p1
                     THEN \E o \in Orders(InitImgIds) :
                          /\ img_ids' = o
                          /\ chip_gens' = [id \in InitImgIds |-> NewGen(id, p1[id])]
                          /\ pc' = "ready"
                          /\ result' = Raise("none")
                     ELSE \* self.props[id] of an image left out of the table
                          /\ pc' = "failed"
                          /\ result' = Raise("KeyError")
                          /\ UNCHANGED <<img_ids, chip_gens>>

\* ------------------------------------------------------ getIterData.next
CallNext ==
    /\ pc = "ready"
    /\ pc' = "next"
    /\ cur' = 1
    /\ data' = <<>>
    /\ result' = Raise("pending")
    /\ UNCHANGED <<shapefile, args, trunc, props, img_ids, chip_gens, nreturned, returned,
                   stops, iter>>

\* mutant of Collect: data = zip(*gen.next())
CollectLast(rows, yielded) == Zip(yielded)

\* data += zip(*gen.next())
Collect(rows, yielded) == rows \o Zip(yielded)

\* gen.next() of the generator being pulled reads one more polygon
GenStep ==
    /\ pc = "next"
    /\ HasPolygon(chip_gens[img_ids[cur]])
    /\ LET id == img_ids[cur]
           r == YieldFromImgIdStep(args, chip_gens[id])
       IN /\ chip_gens' = [chip_gens EXCEPT ![id] = r.g]
          /\ CASE r.ev = "continue" ->
                    UNCHANGED <<pc, cur, data, result>>
               [] r.ev = "yield" ->
                    /\ data' = Collect(data, r.data)
                    /\ cur' = IF cur = Len(img_ids) THEN 0 ELSE cur + 1
                    /\ pc' = IF cur = Len(img_ids) THEN "shuffle" ELSE "next"
                    /\ UNCHANGED result
               [] OTHER ->
                    /\ result' = Raise(r.ev)
                    /\ pc' = "ready"
                    /\ cur' = 0
                    /\ data' = <<>>
    /\ UNCHANGED <<shapefile, args, trunc, props, img_ids, nreturned, returned, stops, iter>>

\* mutant of GenStop: the exhausted generator is created anew
GenStopRewind ==
    /\ pc = "next"
    /\ ~HasPolygon(chip_gens[img_ids[cur]])
    /\ chip_gens' = [chip_gens EXCEPT
                        ![img_ids[cur]] = NewGen(img_ids[cur], props[img_ids[cur]])]
    /\ result' = Raise("StopIteration")
    /\ stops' = Min2(stops + 1, MaxStops)
    /\ pc' = "ready"
    /\ cur' = 0
    /\ data' = <<>>
    /\ UNCHANGED <<shapefile, args, trunc, props, img_ids, nreturned, returned, iter>>

\* mutant of GenStop: a generator that runs off its polygons with chips
\* still buffered hands them over as a last, smaller batch
GenStopFlush ==
    /\ pc = "next"
    /\ ~HasPolygon(chip_gens[img_ids[cur]])
    /\ LET g == Resumed(chip_gens[img_ids[cur]])
       IN IF chip_gens[img_ids[cur]].status # "done" /\ Len(g.inputs) > 0
          THEN /\ chip_gens' = [chip_gens EXCEPT ![img_ids[cur]] =
                                    [g EXCEPT !.status = "done"]]
               /\ data' = Collect(data, Package(args, Len(g.inputs), Len(args.classes),
                                                g.inputs, g.labels, g.ids))
               /\ cur' = IF cur = Len(img_ids) THEN 0 ELSE cur + 1
               /\ pc' = IF cur = Len(img_ids) THEN "shuffle" ELSE "next"
               /\ UNCHANGED <<result, stops>>
          ELSE /\ chip_gens' = [chip_gens EXCEPT ![img_ids[cur]].status = "done"]
               /\ result' = Raise("StopIteration")
               /\ stops' = Min2(stops + 1, MaxStops)
               /\ pc' = "ready"
               /\ cur' = 0
               /\ data' = <<>>
    /\ UNCHANGED <<shapefile, args, trunc, props, img_ids, nreturned, returned, iter>>

\* the generator being pulled has run off its polygons (or is finished):
\* gen.next() raises StopIteration, which next() lets through
GenStop ==
    /\ pc = "next"
    /\ ~HasPolygon(chip_gens[img_ids[cur]])
    /\ chip_gens' = [chip_gens EXCEPT ![img_ids[cur]].status = "done"]
    /\ result' = Raise("StopIteration")
    /\ stops' = Min2(stops + 1, MaxStops)
    /\ pc' = "ready"
    /\ cur' = 0
    /\ data' = <<>>
    /\ UNCHANGED <<shapefile, args, trunc, props, img_ids, nreturned, returned, iter>>

\* mutant of ShuffleRows: only the chip of each row is moved
ShuffleChipsOnly(rows, s) ==
    [r \in 1..Len(rows) |-> [rows[r] EXCEPT ![1] = rows[s[r]][1]]]

\* np.random.shuffle(data): the rows of the list in the order s
ShuffleRows(rows, s) == [r \in 1..Len(rows) |-> rows[s[r]]]

\* np.random.shuffle(data); return [np.array(i) for i in zip(*data)]
ReturnBatch ==
    /\ pc = "shuffle"
    /\ \E s \in Shuffles(Len(data)) :
         result' = [kind |-> "batch", value |-> Zip(ShuffleRows(data, s))]
    /\ nreturned' = nreturned + 1
    /\ returned' = returned \cup {data[r][1].fid : r \in 1..Len(data)}
    /\ pc' = "ready"
    /\ data' = <<>>
    /\ UNCHANGED <<shapefile, args, trunc, props, img_ids, chip_gens, cur, stops, iter>>

\* ---------------------------------------------------------- get_iter_data
RECURSIVE Streams(_)
Streams(order) ==
    IF Len(order) = 0 THEN <<>> ELSE IterVector(Head(order)) \o Streams(Tail(order))

\* the frame of the generator get_iter_data returns, img_ids in this order:
\* the polygons of the first image, then those of the next
NewIter(order) ==
    [batch |-> args.batch_size, stream |-> Streams(order), pos |-> 0,
     ct |-> 0, inputs |-> <<>>, labels |-> <<>>, ids |-> <<>>, status |-> "new"]

\* Y[i, labels[i]] = 1 raises IndexError for a label index >= nb_classes
LabelOutOfRange(a, labels) ==
    a.return_labels /\ \E i \in 1..Len(labels) : labels[i] >= a.nb_classes

\* one pass of the for loops of get_iter_data over the next polygon
GetIterDataStep(a, g0) ==
    LET g == Resumed(g0)
        fid == g.stream[g.pos + 1]
        chip == shapefile[fid].chip
        properties == shapefile[fid].properties
        skip == [g |-> [g EXCEPT !.pos = @ + 1], ev |-> "continue", data |-> <<>>]
    IN  IF chip = NullChip      \* chan, h, w = np.shape(None)
        THEN [g |-> [g EXCEPT !.status = "done"], ev |-> "ValueError", data |-> <<>>]
        ELSE IF Rejected(chip, a.min_chip_hw, a.max_chip_hw) THEN skip
        ELSE IF a.return_labels /\ LabelSkipped(a.classes, properties) THEN skip
        ELSE IF a.return_id /\ ~HasKey(properties, "feature_id")
        THEN \* id = properties['feature_id'] raises after the label was appended
             [g |-> [g EXCEPT
                        !.labels = IF a.return_labels
                                   THEN Append(@, ClsDict(a.classes, properties["class_name"]))
                                   ELSE @,
                        !.status = "done"],
              ev |-> "KeyError", data |-> <<>>]
        ELSE
          LET acc == [g EXCEPT
                  !.pos = @ + 1,
                  !.labels = IF a.return_labels
                             THEN Append(@, ClsDict(a.classes, properties["class_name"]))
                             ELSE @,
                  !.ids = IF a.return_id THEN Append(@, properties["feature_id"]) ELSE @,
                  !.inputs = Append(@, PadChip(fid, chip, a.max_chip_hw)),
                  !.ct = @ + 1]
          IN  IF a.batch_size = 0      \* 100 * ct / float(batch_size)
              THEN [g |-> [acc EXCEPT !.status = "done"],
                    ev |-> "ZeroDivisionError", data |-> <<>>]
              ELSE IF acc.ct # a.batch_size
              THEN [g |-> acc, ev |-> "continue", data |-> <<>>]
              ELSE IF LabelOutOfRange(a, acc.labels)
              THEN [g |-> [acc EXCEPT !.status = "done"], ev |-> "IndexError",
                    data |-> <<>>]
              ELSE [g |-> [acc EXCEPT !.status = "yield"], ev |-> "yield",
                    data |-> Package(a, a.batch_size, a.nb_classes,
                                     acc.inputs, acc.labels, acc.ids)]

\* lines 189-202, reached when the for loops are over: the remaining inputs
GetIterDataEnd(a, g0) ==
    LET g == Resumed(g0)
    IN  IF g0.status \in {"final", "done"} \/ Len(g.inputs) = 0
        THEN [g |-> [g0 EXCEPT !.status = "done"], ev |-> "StopIteration", data |-> <<>>]
        ELSE IF LabelOutOfRange(a, g.labels)
        THEN [g |-> [g EXCEPT !.status = "done"], ev |-> "IndexError", data |-> <<>>]
        ELSE [g |-> [g EXCEPT !.status = "final"], ev |-> "yield",
              data |-> Package(a, Len(g.labels), a.nb_classes,
                               g.inputs, g.labels, g.ids)]

IterHasPolygon == iter.status \notin {"final", "done"} /\ iter.pos < Len(iter.stream)

\* the caller asks the generator for its next batch
IterCall ==
    /\ pc = "iter_idle"
    /\ pc' = "iter_run"
    /\ result' = Raise("pending")
    /\ UNCHANGED <<shapefile, args, trunc, props, img_ids, chip_gens, cur, data,
                   nreturned, returned, stops, iter>>

Settle(r) ==
    /\ iter' = r.g
    /\ IF r.ev = "continue" THEN UNCHANGED <<pc, result>>
       ELSE /\ pc' = "iter_idle"
            /\ result' = IF r.ev = "yield" THEN [kind |-> "data", value |-> r.data]
                                           ELSE Raise(r.ev)
    /\ UNCHANGED <<shapefile, args, trunc, props, img_ids, chip_gens, cur, data,
                   nreturned, returned, stops>>

\* the running generator reads one more polygon
IterStep ==
    /\ pc = "iter_run"
    /\ IterHasPolygon
    /\ Settle(GetIterDataStep(args, iter))

\* the running generator is past its last polygon
IterEnd ==
    /\ pc = "iter_run"
    /\ ~IterHasPolygon
    /\ Settle(GetIterDataEnd(args, iter))

\* ---------------------------------------------------------------- get_data
RECURSIVE Product(_)
Product(q) == IF Len(q) = 0 THEN 1 ELSE Head(q) * Product(Tail(q))

\* chip is None or reduce(lambda x, y: x * y, chip.shape) == 0
NullOrEmpty(chip) == chip = NullChip \/ Product(chip) = 0

\* the try block of get_data: only a missing or None class_name skips
GetDataLabelSkipped(properties) ==
    \/ ~HasKey(properties, "class_name")
    \/ properties["class_name"] = PyNone

\* the loops of get_data over the first n polygons of the stream: the list
\* `data`, or "KeyError" once properties['feature_id'] has failed
RECURSIVE GetDataRows(_, _)
GetDataRows(stream, n) ==
    IF n = 0 THEN <<>>
    ELSE LET before == GetDataRows(stream, n - 1)
             fid == stream[n]
             chip == shapefile[fid].chip
             properties == shapefile[fid].properties
         IN IF before = "KeyError" THEN before
            ELSE IF NullOrEmpty(chip) THEN before
            ELSE IF ~HasKey(properties, "feature_id") THEN "KeyError"
            ELSE IF args.return_labels /\ GetDataLabelSkipped(properties) THEN before
            ELSE Append(before,
                        <<[fid |-> fid, shape |-> chip], properties["feature_id"]>>
                        \o (IF args.return_labels THEN <<properties["class_name"]>>
                                                  ELSE <<>>))

\* get_data(shapefile, return_labels): zip(*data)
GetData ==
    /\ pc = "get_data"
    /\ pc' = "got_data"
    /\ \E o \in Orders(FindUniqueValues("image_id")) :
          LET rows == GetDataRows(Streams(o), Len(Streams(o)))
          IN result' = IF rows = "KeyError" THEN Raise("KeyError")
                       ELSE [kind |-> "columns", value |-> Zip(rows)]
    /\ UNCHANGED <<shapefile, args, trunc, props, img_ids, chip_gens, cur, data,
                   nreturned, returned, stops, iter>>

\* ------------------------------------------------------------- inputs
Absent == "<absent>"              \* the polygon has no such property

MkFeature(fid, k) ==
    [properties |->
        (IF "noid" \in DOMAIN k THEN EmptyDict ELSE ("feature_id" :> fid))
        @@ (IF k.img = Absent THEN EmptyDict ELSE ("image_id" :> k.img))
        @@ (IF k.cls = Absent THEN EmptyDict ELSE ("class_name" :> k.cls)),
     chip |-> k.chip]

MkShapefile(ks) == [i \in 1..Len(ks) |-> MkFeature(i, ks[i])]

Kind(img, cls, chip) == [img |-> img, cls |-> cls, chip |-> chip]

\* polygons of image A: accepted and padded, too large, no chip, a class
\* that is not in the class list
KindsA == {Kind("A", "c0", <<1, 1, 2>>), Kind("A", "c0", <<1, 3, 1>>),
           Kind("A", "c1", NullChip), Kind("A", "zz", <<1, 2, 1>>)}
\* polygons of image B: accepted at full size, zero-area, class None, no
\* class property
KindsB == {Kind("B", "c1", <<1, 2, 2>>), Kind("B", "c1", <<1, 0, 2>>),
           Kind("B", PyNone, <<1, 1, 1>>), Kind("B", Absent, <<1, 2, 2>>)}
\* polygons of image A with and without a feature_id property
KindsId == {Kind("A", "c0", <<1, 1, 2>>),
            [img |-> "A", cls |-> "c1", chip |-> <<1, 2, 2>>, noid |-> TRUE]}
\* a polygon without image_id
KindsN == {Kind(Absent, "c0", <<1, 2, 2>>)}

SeqsUpTo(S, n) == UNION {[1..m -> S] : m \in 0..n}

\* collections list the polygons of A, then of B, then those of no image:
\* iter_vector hands each image its own polygons, so their interleaving in
\* the file changes nothing but the feature ids
KindSeqs(KA, KB, KN) ==
    {ka \o kb \o kn : <<ka, kb, kn>> \in
        {t \in SeqsUpTo(KA, MaxFeatures) \X SeqsUpTo(KB, MaxFeatures)
               \X SeqsUpTo(KN, MaxFeatures) :
            Len(t[1]) + Len(t[2]) + Len(t[3]) <= MaxFeatures}}

\* the generated feature collections
Collections(KN) ==
    KindSeqs(KindsA, KindsB, KN) \cup KindSeqs(KindsId, {Kind("B", "c1", <<1, 2, 2>>)}, {})

Classes == <<"c0", "c1">>
\* the class lists callers pass: two classes, and three with "zz" first
ClassLists == {Classes, <<"zz", "c0", "c1">>}
Flags == {<<TRUE, FALSE>>, <<TRUE, TRUE>>, <<FALSE, FALSE>>}   \* return_labels, return_id

ClassArgs(batch_size, min_chip_hw, max_chip_hw, classes, flags, p) ==
    [batch_size |-> batch_size, min_chip_hw |-> min_chip_hw,
     max_chip_hw |-> max_chip_hw, classes |-> classes,
     return_labels |-> flags[1], return_id |-> flags[2], props |-> p]

\* user-supplied proportion tables: raw positive weights of some images
Tables ==
    UNION {[S -> 1..MaxWeight] : S \in (SUBSET {"A", "B"}) \ {{}}}

NoGen == [batch |-> 0, stream |-> <<>>, pos |-> 0, ct |-> 0, inputs |-> <<>>,
          labels |-> <<>>, ids |-> <<>>, status |-> "none"]

\* the caller is about to construct getIterData(shapefile, **args)
Constructing(sf, a) ==
    /\ shapefile = sf
    /\ args = a
    /\ pc = "constructing"
    /\ trunc = EmptyDict
    /\ props = EmptyDict
    /\ img_ids = <<>>
    /\ chip_gens = EmptyDict
    /\ cur = 0
    /\ data = <<>>
    /\ result = Raise("none")
    /\ nreturned = 0
    /\ returned = {}
    /\ stops = 0
    /\ iter = NoGen

\* quotas derived from the collection
InitDerived ==
    \E ks \in Collections(KindsN), b \in 1..MaxBatch, fl \in Flags,
       cl \in ClassLists :
        Constructing(MkShapefile(ks), ClassArgs(b, 0, 2, cl, fl, EmptyDict))

\* quotas from a proportion table, over collections of accepted polygons
InitTable ==
    \E ks \in KindSeqs({Kind("A", "c0", <<1, 1, 2>>)}, {Kind("B", "c1", <<1, 2, 2>>)}, {}),
       b \in 1..MaxBatch, t \in Tables :
        Constructing(MkShapefile(ks), ClassArgs(b, 0, 2, Classes, <<TRUE, TRUE>>, t))

Rep(k, n) == [i \in 1..n |-> k]

\* batch_size=5, two images supplying exactly 3 valid chips each
Scenario5x3x3 ==
    Constructing(
        MkShapefile(Rep(Kind("A", "c0", <<1, 1, 2>>), 3) \o Rep(Kind("B", "c1", <<1, 2, 2>>), 3)),
        ClassArgs(5, 0, 2, Classes, <<TRUE, FALSE>>, EmptyDict))

\* batch_size=2 over two images of two accepted polygons each: two batches
ScenarioTwoBatches ==
    Constructing(
        MkShapefile(Rep(Kind("A", "c0", <<1, 1, 2>>), 2) \o Rep(Kind("B", "c1", <<1, 2, 2>>), 2)),
        ClassArgs(2, 0, 2, Classes, <<TRUE, TRUE>>, EmptyDict))

\* 10 polygons on image A (50x50, class pool), 10 on image B (200x10, class
\* no_pool), max_chip_hw=125, min_chip_hw=0, batch_size=4
PoolShapefile ==
    MkShapefile(Rep(Kind("A", "pool", <<3, 50, 50>>), 10)
                \o Rep(Kind("B", "no_pool", <<3, 200, 10>>), 10))
PoolArgs == ClassArgs(4, 0, 125, <<"no_pool", "pool">>, <<TRUE, FALSE>>, EmptyDict)
ScenarioPool == Constructing(PoolShapefile, PoolArgs)

\* proportion tables {A: 1, B: 3} with batch_size=8 and {A: 15, B: 7} with
\* batch_size=22, over one accepted polygon per image
TableShapefile ==
    MkShapefile(<<Kind("A", "c0", <<1, 1, 2>>), Kind("B", "c1", <<1, 2, 2>>)>>)
Table13 == ("A" :> 1) @@ ("B" :> 3)
Table157 == ("A" :> 15) @@ ("B" :> 7)
ScenarioTable13 ==
    Constructing(TableShapefile, ClassArgs(8, 0, 2, Classes, <<TRUE, FALSE>>, Table13))
ScenarioTable157 ==
    Constructing(TableShapefile, ClassArgs(22, 0, 2, Classes, <<TRUE, FALSE>>, Table157))

IterArgs(batch_size, nb_classes, min_chip_hw, max_chip_hw, classes, flags) ==
    [batch_size |-> batch_size, nb_classes |-> nb_classes,
     min_chip_hw |-> min_chip_hw, max_chip_hw |-> max_chip_hw, classes |-> classes,
     return_labels |-> flags[1], return_id |-> flags[2]]

\* the caller holds the generator get_iter_data(shapefile, **args) returned
InitIter ==
    \E ks \in Collections({}), b \in 1..MaxBatch, nb \in 2..3,
       fl \in {<<TRUE, TRUE>>, <<FALSE, FALSE>>}, cl \in ClassLists :
        /\ shapefile = MkShapefile(ks)
        /\ args = IterArgs(b, nb, 0, 2, cl, fl)
        /\ pc = "iter_idle"
        /\ trunc = EmptyDict
        /\ props = EmptyDict
        /\ img_ids = <<>>
        /\ chip_gens = EmptyDict
        /\ cur = 0
        /\ data = <<>>
        /\ result = Raise("none")
        /\ nreturned = 0
        /\ returned = {}
        /\ stops = 0
        /\ \E o \in Orders(FindUniqueValues("image_id")) : iter = NewIter(o)

\* the caller is about to call get_data(shapefile, return_labels)
InitGetData ==
    \E ks \in Collections({}), rl \in BOOLEAN :
        /\ shapefile = MkShapefile(ks)
        /\ args = [return_labels |-> rl]
        /\ pc = "get_data"
        /\ trunc = EmptyDict
        /\ props = EmptyDict
        /\ img_ids = <<>>
        /\ chip_gens = EmptyDict
        /\ cur = 0
        /\ data = <<>>
        /\ result = Raise("none")
        /\ nreturned = 0
        /\ returned = {}
        /\ stops = 0
        /\ iter = NoGen

Init ==
    \/ InitGetData
    \/ InitIter
    \/ InitDerived
    \/ InitTable
    \/ Scenario5x3x3
    \/ ScenarioTwoBatches
    \/ ScenarioPool
    \/ ScenarioTable13
    \/ ScenarioTable157

Next ==
    \/ Construct \/ CallNext \/ GenStep \/ GenStop \/ ReturnBatch
    \/ IterCall \/ IterStep \/ IterEnd
    \/ GetData

Spec == Init /\ [][Next]_vars

\* a call of next() runs to its end once started: the interpreter keeps
\* executing the generators it pulls and the shuffle; nothing makes the
\* caller call again
SpecLive == Spec /\ WF_vars(GenStep \/ GenStop \/ ReturnBatch)

\* ------------------------------------------- the size filter and padder alone
\* one chip of shape (channels, h, w) reaches the size check of the loop body
InitPad ==
    \E c \in 1..MaxChannels, h \in 0..MaxHW, w \in 0..MaxHW, mn \in 0..MaxMinHW,
       mx \in 0..MaxHW :
        /\ shapefile = MkShapefile(<<Kind("A", "c0", <<c, h, w>>)>>)
        /\ args = IterArgs(1, 2, mn, mx, Classes, <<FALSE, FALSE>>)
        /\ pc = "chip"
        /\ trunc = EmptyDict
        /\ props = EmptyDict
        /\ img_ids = <<>>
        /\ chip_gens = EmptyDict
        /\ cur = 0
        /\ data = <<>>
        /\ result = Raise("none")
        /\ nreturned = 0
        /\ returned = {}
        /\ stops = 0
        /\ iter = NoGen

\* the size check, then np.pad on the chip that passes it
FilterAndPad ==
    /\ pc = "chip"
    /\ pc' = "padded"
    /\ result' = IF Rejected(shapefile[1].chip, args.min_chip_hw, args.max_chip_hw)
                 THEN Raise("skipped")
                 ELSE [kind |-> "chip_patch",
                       value |-> PadChip(1, shapefile[1].chip, args.max_chip_hw)]
    /\ UNCHANGED <<shapefile, args, trunc, props, img_ids, chip_gens, cur, data,
                   nreturned, returned, stops, iter>>

\* the size check and np.pad once more, on the padded chip; the outcome of
\* the second run is kept in data
FilterAndPadAgain ==
    /\ pc = "padded"
    /\ result.kind = "chip_patch"
    /\ pc' = "padded_twice"
    /\ data' = IF Rejected(result.value.shape, args.min_chip_hw, args.max_chip_hw)
               THEN Raise("skipped")
               ELSE [kind |-> "chip_patch",
                     value |-> PadChip(1, result.value.shape, args.max_chip_hw)]
    /\ UNCHANGED <<shapefile, args, trunc, props, img_ids, chip_gens, cur, result,
                   nreturned, returned, stops, iter>>

NextPad == FilterAndPad \/ FilterAndPadAgain

SpecPad == InitPad /\ [][NextPad]_vars

\* -------------------------------------------------------- get_proportion alone
\* the caller is about to call get_proportion(property_name, property)
InitProportion ==
    \E ks \in Collections(KindsN), name \in {"image_id", "class_name"},
       value \in {"A", "B", "c0", "None", PyNone, "X"} :
        /\ shapefile = MkShapefile(ks)
        /\ args = [property_name |-> name, property |-> value]
        /\ pc = "get_proportion"
        /\ trunc = EmptyDict
        /\ props = EmptyDict
        /\ img_ids = <<>>
        /\ chip_gens = EmptyDict
        /\ cur = 0
        /\ data = <<>>
        /\ result = Raise("none")
        /\ nreturned = 0
        /\ returned = {}
        /\ stops = 0
        /\ iter = NoGen

\* return float(prop) / total
CallGetProportion ==
    /\ pc = "get_proportion"
    /\ pc' = "got_proportion"
    /\ LET r == GetProportion(args.property_name, args.property)
       IN result' = IF r[2] = 0 THEN Raise("ZeroDivisionError")
                    ELSE [kind |-> "float", value |-> r]
    /\ UNCHANGED <<shapefile, args, trunc, props, img_ids, chip_gens, cur, data,
                   nreturned, returned, stops, iter>>

NextProportion == CallGetProportion

SpecProportion == InitProportion /\ [][NextProportion]_vars

\* ---------------------------------------------------------------- claims
ClassMode == pc \in {"constructing", "failed", "ready", "next", "shuffle"}
Constructed == pc \in {"ready", "next", "shuffle"}
IsDerived == ClassMode /\ ~HasProps

\* C1: once getIterData is constructed, from a proportion table or from the
\* collection, every quota is a non-negative integer and the quotas sum to
\* batch_size exactly.
C1_QuotasSumToBatchSize ==
    Constructed =>
        /\ \A i \in DOMAIN props : props[i] \in Nat
        /\ SumValues(props) = args.batch_size

\* a sampler built from the collection, two images, with a rounding shortfall
C1_Witness ==
    /\ pc = "ready"
    /\ IsDerived
    /\ Cardinality(DOMAIN props) = 2
    /\ SumValues(trunc) < args.batch_size

Columns == 1 + (IF args.return_id THEN 1 ELSE 0) + (IF args.return_labels THEN 1 ELSE 0)

\* C2: every batch next() returns has batch_size rows: the pixel tensor, the
\* id list (when return_id) and the label matrix (when return_labels) all
\* have leading length batch_size.
C2_BatchHasBatchSizeRows ==
    result.kind = "batch" =>
        /\ Len(result.value) = Columns
        /\ \A c \in 1..Len(result.value) : Len(result.value[c]) = args.batch_size

\* a batch with ids and labels merged from two pipelines
C2_Witness ==
    /\ result.kind = "batch"
    /\ args.return_id /\ args.return_labels
    /\ \A id \in {"A", "B"} : id \in DOMAIN props /\ props[id] > 0

ImageOf(fid) ==
    IF HasKey(shapefile[fid].properties, "image_id")
    THEN shapefile[fid].properties["image_id"] ELSE Absent

RowsOfImage(chips, img) == {r \in 1..Len(chips) : ImageOf(chips[r].fid) = img}

\* C3: a next() call that returns has pulled one batch from every pipeline:
\* each generator is suspended at its yield holding exactly the chips of its
\* image in the batch, quota_i of them, and every chip of the batch is cut
\* for a polygon of one of the sampler's images.
C3_OneBatchPerPipeline ==
    result.kind = "batch" =>
        LET chips == result.value[1]
        IN /\ \A r \in 1..Len(chips) : ImageOf(chips[r].fid) \in DOMAIN chip_gens
           /\ \A img \in DOMAIN chip_gens :
                /\ Cardinality(RowsOfImage(chips, img)) = props[img]
                /\ chip_gens[img].status = "yield"
                /\ {chip_gens[img].inputs[k] : k \in 1..Len(chip_gens[img].inputs)}
                     = {chips[r] : r \in RowsOfImage(chips, img)}

\* a returned batch of two images with different quotas
C3_Witness ==
    /\ result.kind = "batch"
    /\ DOMAIN props = {"A", "B"}
    /\ props["A"] > props["B"] /\ props["B"] > 0

\* the polygons of an image its pipeline accepts
Admissible(fid) ==
    /\ shapefile[fid].chip # NullChip
    /\ ~Rejected(shapefile[fid].chip, args.min_chip_hw, args.max_chip_hw)
    /\ args.return_labels => ~LabelSkipped(args.classes, shapefile[fid].properties)

\* the number of batches the pipeline of img can supply
Supply(img) ==
    LET st == IterVector(img)
        n == Cardinality({k \in 1..Len(st) : Admissible(st[k])})
    IN IF props[img] = 0 THEN 0 ELSE n \div props[img]

MinSupply == CHOOSE m \in {Supply(img) : img \in DOMAIN chip_gens} :
                \A img \in DOMAIN chip_gens : m <= Supply(img)

Is5x3x3 == ClassMode /\ args.batch_size = 5 /\ Len(shapefile) = 6

\* C4: a next() call either returns a batch or raises stop-of-sequence, and
\* raises exactly when a pipeline is exhausted: the calls that return are as
\* many as the least number of batches a pipeline can supply.  With
\* batch_size=5 and two images of 3 valid chips the first call returns and
\* the second raises stop-of-sequence.
C4_StopExactlyAtExhaustion ==
    Constructed =>
        /\ nreturned <= MinSupply
        /\ result.kind \in {"none", "pending", "batch", "StopIteration"}
        /\ result.kind = "StopIteration" => nreturned = MinSupply
        /\ (pc = "ready" /\ nreturned = MinSupply /\ result.kind # "none")
              => result.kind \in {"batch", "StopIteration"}
        /\ (Is5x3x3 /\ result.kind = "StopIteration") => nreturned = 1

C6_DerivedConstructionSucceeds ==
    (/\ IsDerived /\ pc # "constructing" /\ Len(shapefile) >= 1
     /\ \A i \in 1..Len(shapefile) : HasKey(shapefile[i].properties, "image_id")) =>
        /\ pc # "failed"
        /\ \A id \in FindUniqueValues("image_id") :
              (id \in DOMAIN trunc) = (DerivedQuota(id) > 0)
        /\ DOMAIN chip_gens = FindUniqueValues("image_id")
        /\ \A id \in DOMAIN chip_gens : chip_gens[id].batch = props[id]

IsPool == ClassMode /\ shapefile = PoolShapefile /\ args = PoolArgs

\* C7 as claimed: in the pool scenario the sampler gives all 4 slots to
\* image A, whose chips pass the size filter, and none to image B.
C7_AllSlotsToAcceptedImage ==
    (IsPool /\ pc # "constructing") =>
        /\ pc # "failed"
        /\ props["A"] = 4
        /\ "B" \in DOMAIN props => props["B"] = 0

\* C7 amended: in the pool scenario the quotas follow the polygon counts,
\* 2 slots to A and 2 to B with no shortfall; B's pipeline accepts no chip,
\* so next() returns no batch: once B is pulled the call raises
\* stop-of-sequence.
C7_QuotasFollowPolygonCounts ==
    (IsPool /\ pc # "constructing") =>
        /\ pc # "failed"
        /\ props = ("A" :> 2) @@ ("B" :> 2)
        /\ trunc = props
        /\ nreturned = 0
        /\ result.kind \in {"none", "pending", "StopIteration"}
        /\ Len(chip_gens["B"].inputs) = 0
        /\ (pc = "ready" /\ result.kind # "none") => result.kind = "StopIteration"

\* the first next() of the pool scenario has raised after B read its 10 polygons
C7_Witness ==
    /\ IsPool
    /\ pc = "ready"
    /\ result.kind = "StopIteration"
    /\ chip_gens["B"].pos = 10

IsTable13 == ClassMode /\ args.props = Table13 /\ args.batch_size = 8

\* C8: with a proportion table of raw weights w_i the truncated quota of
\* image i is floor(batch_size * w_i / sum of the weights); {A: 1, B: 3}
\* with batch_size=8 gives A=2, B=6 and no shortfall correction.
C8_TruncatedQuotaIsFloor ==
    (ClassMode /\ HasProps /\ pc # "constructing") =>
        /\ \A i \in DOMAIN args.props :
              trunc[i] = (args.batch_size * args.props[i]) \div SumValues(args.props)
        /\ IsTable13 => (trunc = ("A" :> 2) @@ ("B" :> 6) /\ props = trunc)

RECURSIVE SumSeq(_)
SumSeq(q) == IF Len(q) = 0 THEN 0 ELSE Head(q) + SumSeq(Tail(q))

\* the class-list index (from 0) of the class_name of the polygon a chip was cut for
ClassIndex(chip) ==
    CHOOSE i \in 0..(Len(args.classes) - 1) :
        args.classes[i + 1] = shapefile[chip.fid].properties["class_name"]

\* row Y[r] is the one-hot encoding of the class of the chip it belongs to
OneHotRow(row, chip) ==
    /\ Len(row) = Len(args.classes)
    /\ SumSeq(row) = 1
    /\ InClsDict(args.classes, shapefile[chip.fid].properties["class_name"])
    /\ row[ClassIndex(chip) + 1] = 1

\* C9: in every batch emitted with labels requested, by get_iter_data (full
\* and final partial batches) and by each pipeline of getIterData, the label
\* matrix has one row per chip and one column per class of the class list,
\* every row sums to 1 with its 1 in the column of the class-list index of
\* the chip's polygon; for every class list and every accepted polygon whose
\* class_name is in the list the batch is emitted (no error is raised).
C9_OneHotLabels ==
    /\ (result.kind = "data" /\ args.return_labels) =>
          LET chips == result.value[1]
              Y == result.value[Len(result.value)]
          IN /\ Len(Y) = Len(chips)
             /\ \A r \in 1..Len(Y) : OneHotRow(Y[r], chips[r])
    /\ (ClassMode /\ args.return_labels) =>
          \A r \in 1..Len(data) : OneHotRow(data[r][Len(data[r])], data[r][1])
    /\ result.kind # "IndexError"

\* leading and trailing pad of one axis split p as the claim says:
\* leading = floor(p/2), trailing = p - leading, trailing - leading in {0, 1}
SplitsPad(pw, p) ==
    /\ 2 * pw[1] <= p /\ p < 2 * pw[1] + 2
    /\ pw[2] = p - pw[1]
    /\ pw[2] - pw[1] \in {0, 1}

FuncMode == pc \in {"iter_idle", "iter_run"}

\* the accepted polygons among the first n of a stream, in stream order
RECURSIVE AcceptedOf(_, _)
AcceptedOf(stream, n) ==
    IF n = 0 THEN <<>>
    ELSE IF Admissible(stream[n]) THEN Append(AcceptedOf(stream, n - 1), stream[n])
    ELSE AcceptedOf(stream, n - 1)

Fids(chips) == [r \in 1..Len(chips) |-> chips[r].fid]

\* the last m entries of q
LastOf(q, m) == SubSeq(q, Len(q) - m + 1, Len(q))

\* C11: get_iter_data over a finite collection terminates (it raises
\* stop-of-sequence once the whole stream is read, and nothing else); its
\* k-th batch holds the accepted chips (k-1)*batch_size+1 .. k*batch_size in
\* stream order, so every accepted polygon is in exactly one batch; a
\* remainder 0 < r < batch_size at end of stream is emitted as one final
\* batch of r rows with r label rows, and nothing is emitted for r = 0.
C11_BatchesPartitionAccepted ==
    FuncMode =>
        LET acc == AcceptedOf(iter.stream, iter.pos)
            n == Len(acc)
            bs == args.batch_size
            chips == result.value[1]
            Y == result.value[Len(result.value)]
        IN /\ result.kind \in {"none", "pending", "data", "StopIteration"}
           /\ result.kind = "StopIteration" => iter.pos = Len(iter.stream)
           /\ (result.kind = "data" /\ iter.status = "yield") =>
                 /\ n > 0 /\ n % bs = 0
                 /\ Fids(chips) = LastOf(acc, bs)
                 /\ args.return_labels => Len(Y) = bs
           /\ (result.kind = "data" /\ iter.status = "final") =>
                 /\ iter.pos = Len(iter.stream)
                 /\ n % bs > 0
                 /\ Fids(chips) = LastOf(acc, n % bs)
                 /\ args.return_labels => Len(Y) = n % bs
           /\ (result.kind = "StopIteration" /\ n % bs # 0) =>
                 Fids(iter.inputs) = LastOf(acc, n % bs)

\* a pipeline that ran off its polygon stream with a partial buffer
EndedWithPartial(g) ==
    /\ g.status = "done"
    /\ g.pos = Len(g.stream)
    /\ 0 < Len(g.inputs) /\ Len(g.inputs) < g.batch

\* C12 as claimed: a pipeline whose stream ends with 0 < buffered < quota
\* emits the buffered chips as one last batch before it is exhausted, so no
\* pipeline is ever exhausted with such a buffer not handed over.
C12_FinalPartialBatchEmitted ==
    Constructed => \A img \in DOMAIN chip_gens : ~EndedWithPartial(chip_gens[img])

\* C12 amended: a pipeline yields only full batches of its quota; when its
\* stream ends with 0 < buffered < quota the call raises stop-of-sequence
\* and the buffered chips are dropped: they are in no row collected by
\* next() and no batch is returned from then on.
C12_PartialBufferDropped ==
    Constructed =>
        \A img \in DOMAIN chip_gens :
            LET g == chip_gens[img]
            IN /\ g.status = "yield" => Len(g.inputs) = g.batch
               /\ EndedWithPartial(g) =>
                    /\ result.kind \in {"pending", "StopIteration"}
                    /\ \A r \in 1..Len(data), k \in 1..Len(g.inputs) :
                          data[r][1] # g.inputs[k]

\* a pipeline of quota 2 has ended holding one chip; next() raised
C12_Witness ==
    /\ pc = "ready"
    /\ result.kind = "StopIteration"
    /\ \E img \in DOMAIN chip_gens :
          /\ EndedWithPartial(chip_gens[img])
          /\ chip_gens[img].batch = 2

\* the buffers of an accumulator as the loop body finds them (a generator
\* resumed after a yield has reset them first)
Buffers(g) ==
    IF g.status = "yield" THEN <<0, <<>>, <<>>, <<>>>>
    ELSE <<g.ct, g.inputs, g.labels, g.ids>>

\* the chip is outside the size bounds
OutOfBounds(chip) ==
    \/ chip[2] < args.min_chip_hw \/ chip[3] < args.min_chip_hw
    \/ chip[2] > args.max_chip_hw \/ chip[3] > args.max_chip_hw

\* what C13 says of one pass of an accumulator g -> h over a non-null chip
SizeFilterEffect(g, h) ==
    LET chip == shapefile[g.stream[g.pos + 1]].chip
    IN  chip # NullChip =>
          /\ OutOfBounds(chip) =>
                /\ <<h.ct, h.inputs, h.labels, h.ids>> = Buffers(g)
                /\ h.pos = g.pos + 1
                /\ h.status = "loop"
                /\ UNCHANGED <<pc, result>>
          /\ (~OutOfBounds(chip) /\ ~args.return_labels /\ ~args.return_id) =>
                /\ h.ct = Buffers(g)[1] + 1
                /\ Len(h.inputs) = Len(Buffers(g)[2]) + 1

NullChipEffect(g, h) ==
    shapefile[g.stream[g.pos + 1]].chip = NullChip =>
        /\ <<h.ct, h.inputs, h.labels, h.ids>> = Buffers(g)
        /\ h.pos = g.pos + 1
        /\ h.status = "loop"
        /\ UNCHANGED <<pc, result>>

\* C14: a null chip is skipped, in get_iter_data and in every per-image
\* pipeline: it raises no error, adds nothing to the chip, label or id
\* buffers, and processing continues with the next polygon.
C14_NullChipSkipped ==
    [][ /\ (pc = "next" /\ HasPolygon(chip_gens[img_ids[cur]])) =>
              NullChipEffect(chip_gens[img_ids[cur]], chip_gens'[img_ids[cur]])
        /\ (pc = "iter_run" /\ IterHasPolygon) => NullChipEffect(iter, iter') ]_vars

ZeroArea(chip) == chip # NullChip /\ (chip[2] = 0 \/ chip[3] = 0)

\* C15: a zero-area chip (h = 0 or w = 0) is skipped silently and never
\* appears in an emitted batch, for every configuration including the
\* default min_chip_hw = 0, in get_data, get_iter_data and the per-image
\* pipelines of getIterData: no chip held in a buffer, a collected row or a
\* returned value was cut for a polygon with a zero-area chip.
C15_ZeroAreaNeverEmitted ==
    /\ result.kind \in {"columns", "data", "batch"} =>
          (Len(result.value) > 0 =>
             \A r \in 1..Len(result.value[1]) :
                ~ZeroArea(shapefile[result.value[1][r].fid].chip))
    /\ \A k \in 1..Len(iter.inputs) : ~ZeroArea(shapefile[iter.inputs[k].fid].chip)
    /\ \A img \in DOMAIN chip_gens : \A k \in 1..Len(chip_gens[img].inputs) :
          ~ZeroArea(shapefile[chip_gens[img].inputs[k].fid].chip)

\* the polygon has no usable class: class_name missing, null or not in the list
BadClass(properties) ==
    \/ "class_name" \notin DOMAIN properties
    \/ properties["class_name"] = PyNone
    \/ \A i \in 1..Len(args.classes) : args.classes[i] # properties["class_name"]

\* the polygon is skipped: buffers as found, next polygon, nothing raised
Skipped(g, h) ==
    /\ <<h.ct, h.inputs, h.labels, h.ids>> = Buffers(g)
    /\ h.pos = g.pos + 1
    /\ h.status = "loop"
    /\ UNCHANGED <<pc, result>>

\* what C16 says of one pass of an accumulator g -> h over a chip that
\* passed the null and size checks
LabelSkipEffect(g, h) ==
    LET properties == shapefile[g.stream[g.pos + 1]].properties
        chip == shapefile[g.stream[g.pos + 1]].chip
    IN  (chip # NullChip /\ ~OutOfBounds(chip)) =>
          /\ (args.return_labels /\ BadClass(properties)) => Skipped(g, h)
          /\ result'.kind \notin {"KeyError", "TypeError"}
          /\ args.return_labels => Len(h.labels) = Len(h.inputs)
          /\ args.return_id => Len(h.ids) = Len(h.inputs)

\* C16 as claimed: with labels requested a polygon whose class_name is
\* missing, null or not in the class list is skipped with no error and the
\* buffers unchanged; no label or id is recorded without its chip; a
\* missing or invalid polygon property is always a skip, never a failure.
C16_BadPropertiesAlwaysSkip ==
    [][ /\ (pc = "next" /\ HasPolygon(chip_gens[img_ids[cur]])) =>
              LabelSkipEffect(chip_gens[img_ids[cur]], chip_gens'[img_ids[cur]])
        /\ (pc = "iter_run" /\ IterHasPolygon) => LabelSkipEffect(iter, iter') ]_vars

\* the rows of the batch a suspended pipeline has yielded
YieldedRows(g) ==
    {<<g.inputs[k]>>
       \o (IF args.return_id THEN <<g.ids[k]>> ELSE <<>>)
       \o (IF args.return_labels
           THEN <<[c \in 1..Len(args.classes) |-> IF c = g.labels[k] + 1 THEN 1 ELSE 0]>>
           ELSE <<>>) : k \in 1..Len(g.inputs)}

\* C17: next() permutes pixel rows, ids and label rows with one and the
\* same permutation: row r of the chips, entry r of the ids and row r of
\* the labels belong to the same polygon, and the rows returned are exactly
\* the rows of the per-image batches pulled in the call, each once.
C17_RowsStayTogether ==
    result.kind = "batch" =>
        LET rows == Zip(result.value)
            chips == result.value[1]
        IN /\ \A r \in 1..Len(rows) :
                /\ rows[r][1] = chips[r]
                /\ args.return_id =>
                      rows[r][2] = shapefile[chips[r].fid].properties["feature_id"]
                /\ args.return_labels => OneHotRow(rows[r][Len(rows[r])], chips[r])
           /\ {rows[r] : r \in 1..Len(rows)}
                 = UNION {YieldedRows(chip_gens[img]) : img \in DOMAIN chip_gens}
           /\ Cardinality({rows[r] : r \in 1..Len(rows)}) = Len(rows)
           /\ Len(rows) = SumValues([img \in DOMAIN chip_gens |->
                                        Len(chip_gens[img].inputs)])

\* a batch with ids and labels whose first row comes from the image pulled last
C17_Witness ==
    /\ result.kind = "batch"
    /\ args.return_id /\ args.return_labels
    /\ Len(img_ids) = 2
    /\ Len(result.value[1]) = 3
    /\ ImageOf(result.value[1][1].fid) = img_ids[2]
    /\ ImageOf(result.value[1][2].fid) = img_ids[1]

\* an accumulator with target batch size n holds at most n chips, is
\* suspended exactly when it holds n, and holds fewer while it runs
Bounded(g, n) ==
    /\ Len(g.inputs) <= n /\ Len(g.labels) <= n /\ Len(g.ids) <= n
    /\ g.ct = Len(g.inputs)
    /\ g.status = "yield" => Len(g.inputs) = n
    /\ g.status = "loop" => Len(g.inputs) < n

\* C18: in every accumulator the count is compared with the target after
\* each accepted chip and on equality a batch is emitted and the buffers
\* reset, so the number of buffered chips never exceeds the target batch
\* size, for every target the sampler can assign to a pipeline.
C18_BufferBounded ==
    /\ FuncMode => Bounded(iter, args.batch_size)
    /\ Constructed => \A img \in DOMAIN chip_gens : Bounded(chip_gens[img], props[img])

\* C19: the size filter and padder is idempotent on shape: run on its own
\* output, a chip of shape (channels, max_chip_hw, max_chip_hw), it accepts
\* the chip and returns the same shape with zero padding on every edge,
\* for every min_chip_hw, max_chip_hw under which some chip is accepted.
C19_PadderIdempotent ==
    pc = "padded_twice" =>
        /\ data.kind = "chip_patch"
        /\ data.value.shape = result.value.shape
        /\ data.value.shape = <<shapefile[1].chip[1], args.max_chip_hw, args.max_chip_hw>>
        /\ data.value.pad_h = <<0, 0>>
        /\ data.value.pad_w = <<0, 0>>

\* the second run on a chip the first run padded on both axes
C19_Witness ==
    /\ pc = "padded_twice"
    /\ result.value.pad_h = <<0, 1>>
    /\ result.value.pad_w = <<1, 1>>
    /\ args.min_chip_hw = 1
    /\ data.kind = "chip_patch"

\* the features whose property has the value
Having(name, value) ==
    {i \in 1..Len(shapefile) :
        /\ name \in DOMAIN shapefile[i].properties
        /\ shapefile[i].properties[name] = value}

\* the numerators of all the distinct values of a property, summed
SumOfCounts(name) ==
    SumValues([v \in FindUniqueValues(name) |-> GetProportion(name, v)[1]])

\* C20: get_proportion returns (features whose property equals the value) /
\* (all features): a feature without the property is left out of the
\* numerator and still counted in the denominator, so the proportions of
\* all distinct values sum to at most 1; on an empty collection the call
\* fails with a division error.
C20_ProportionOfAllFeatures ==
    pc = "got_proportion" =>
        IF Len(shapefile) = 0
        THEN result.kind = "ZeroDivisionError"
        ELSE /\ result.kind = "float"
             /\ result.value = <<Cardinality(Having(args.property_name, args.property)),
                                 Len(shapefile)>>
             /\ SumOfCounts(args.property_name) <= Len(shapefile)
             /\ SumOfCounts(args.property_name) =
                   Cardinality({i \in 1..Len(shapefile) :
                                   args.property_name \in DOMAIN shapefile[i].properties})

\* the features whose property, as a string, is the value
HavingStr(name, value) ==
    {i \in 1..Len(shapefile) :
        /\ name \in DOMAIN shapefile[i].properties
        /\ (IF shapefile[i].properties[name] = PyNone THEN "None"
            ELSE shapefile[i].properties[name]) = value}

\* C20 amended: get_proportion returns (features whose property, converted
\* with str(), equals the value) / (all features): a null property counts
\* for the value 'None' and for no other, a feature without the property is
\* left out of the numerator and still counted in the denominator, so the
\* proportions of all distinct string values sum to at most 1; on an empty
\* collection the call fails with a division error.
C20_ProportionOfStringForm ==
    pc = "got_proportion" =>
        IF Len(shapefile) = 0
        THEN result.kind = "ZeroDivisionError"
        ELSE /\ result.kind = "float"
             /\ result.value = <<Cardinality(HavingStr(args.property_name, args.property)),
                                 Len(shapefile)>>
             /\ args.property = PyNone => result.value[1] = 0
             /\ SumValues([v \in {Str(u) : u \in FindUniqueValues(args.property_name)}
                              |-> GetProportion(args.property_name, v)[1]])
                   = Cardinality({i \in 1..Len(shapefile) :
                                   args.property_name \in DOMAIN shapefile[i].properties})

\* one of three features has a null class, which the value 'None' matches;
\* another lacks the property
C20_Witness ==
    /\ pc = "got_proportion"
    /\ result.kind = "float"
    /\ result.value = <<1, 3>>
    /\ args.property = "None"
    /\ \E i \in 1..Len(shapefile) : args.property_name \notin DOMAIN shapefile[i].properties

\* C21: the shortfall correction changes exactly one quota: when the
\* truncated quotas sum to less than batch_size one image of the table is
\* chosen and gets the entire shortfall, every other quota keeps its
\* truncated value; when they sum to batch_size no quota is changed.
C21_ShortfallToOneImage ==
    (ClassMode /\ pc # "constructing") =>
        LET shortfall == args.batch_size - SumValues(trunc)
        IN IF shortfall > 0
           THEN \E d \in DOMAIN trunc : props = [trunc EXCEPT ![d] = @ + shortfall]
           ELSE props = trunc

\* the polygons the chips of a list of rows were cut for
RowFids(rows) == {rows[r][1].fid : r \in 1..Len(rows)}

\* C22: across any sequence of next() calls each per-image cursor only
\* moves forward over its own, fixed stream and is never restarted; no
\* polygon is returned in more than one batch and none appears twice
\* within a batch.
C22_NoPolygonReturnedTwice ==
    [][ /\ (pc # "constructing") =>
              /\ DOMAIN chip_gens' = DOMAIN chip_gens
              /\ \A img \in DOMAIN chip_gens :
                    /\ chip_gens'[img].stream = chip_gens[img].stream
                    /\ chip_gens'[img].pos >= chip_gens[img].pos
              /\ \A a, b \in DOMAIN chip_gens :
                    a # b => \A i \in 1..Len(chip_gens[a].stream),
                                j \in 1..Len(chip_gens[b].stream) :
                                chip_gens[a].stream[i] # chip_gens[b].stream[j]
        /\ (pc = "shuffle" /\ result'.kind = "batch") =>
              LET chips == result'.value[1]
              IN /\ \A r \in 1..Len(chips) : chips[r].fid \notin returned
                 /\ \A r, q \in 1..Len(chips) : chips[r].fid = chips[q].fid => r = q
                 /\ returned' = returned \cup {chips[r].fid : r \in 1..Len(chips)} ]_vars

\* a second batch has been returned, each of two chips from two images
C22_Witness ==
    /\ result.kind = "batch"
    /\ nreturned = 2
    /\ Cardinality(returned) = 4
    /\ Len(img_ids) = 2

\* the accumulator is between two polygons or at an emission point: it has
\* not been killed by an error in the middle of a polygon
AtRest(g) ==
    \/ g.status \in {"new", "loop", "yield", "final"}
    \/ g.status = "done" /\ g.pos = Len(g.stream)

\* the parallel buffers of an accumulator describe the same polygons
Aligned(g) ==
    /\ Len(g.inputs) = g.ct
    /\ Len(g.labels) = (IF args.return_labels THEN g.ct ELSE 0)
    /\ Len(g.ids) = (IF args.return_id THEN g.ct ELSE 0)
    /\ \A r \in 1..Len(g.inputs) :
          LET properties == shapefile[g.inputs[r].fid].properties
          IN /\ args.return_labels =>
                  /\ "class_name" \in DOMAIN properties
                  /\ g.labels[r] \in 0..(Len(args.classes) - 1)
                  /\ args.classes[g.labels[r] + 1] = properties["class_name"]
             /\ args.return_id =>
                  /\ "feature_id" \in DOMAIN properties
                  /\ g.ids[r] = properties["feature_id"]

\* C23: the parallel buffers of an accumulator stay aligned: after every
\* fully processed polygon and at every emission point the chip list has
\* length count, the label list too when labels are requested, the id list
\* too when ids are requested, and position r of each describes the same
\* polygon, in get_iter_data and in every per-image pipeline.
C23_BuffersAligned ==
    /\ (FuncMode /\ AtRest(iter)) => Aligned(iter)
    /\ Constructed =>
          \A img \in DOMAIN chip_gens : AtRest(chip_gens[img]) => Aligned(chip_gens[img])

\* a pipeline holds one chip with its label and id after an accepted, a
\* rejected and a label-skipped polygon
C23_Witness ==
    /\ Constructed
    /\ args.return_labels /\ args.return_id
    /\ \E img \in DOMAIN chip_gens :
          LET g == chip_gens[img]
          IN /\ g.status = "loop"
             /\ g.pos = 3
             /\ Len(g.inputs) = 1 /\ Len(g.labels) = 1 /\ Len(g.ids) = 1
             /\ \E k \in 1..3 : shapefile[g.stream[k]].chip # NullChip
                                 /\ OutOfBounds(shapefile[g.stream[k]].chip)
             /\ \E k \in 1..3 : shapefile[g.stream[k]].chip # NullChip
                                 /\ ~OutOfBounds(shapefile[g.stream[k]].chip)
                                 /\ BadClass(shapefile[g.stream[k]].properties)

\* C24: over a finite collection every next() call terminates: it
\* eventually either returns a batch or raises stop-of-sequence, for every
\* quota assignment construction can produce.
C24_NextReturnsOrStops ==
    (pc = "next") ~> (pc = "ready" /\ result.kind \in {"batch", "StopIteration"})

====
